---- MODULE Spec2Model ----
(***************************************************************************)
(* Attendance reconciliation (scriptAsist.py): name normalisation, fuzzy  *)
(* name matching and the process_attendance pipeline.                     *)
(*                                                                         *)
(* Strings are sequences of one-character strings. Durations in hours are *)
(* kept exactly, as whole minutes (hours * 60).                            *)
(***************************************************************************)
EXTENDS Integers, Sequences, FiniteSets, TLC

VARIABLES
    pc,                 \* position in the program under analysis
    name,               \* normalize_name: the argument
    once,               \* normalize_name(name)
    twice,              \* normalize_name(normalize_name(name))
    target_name,        \* find_matching_name: first argument
    name_list,          \* find_matching_name: second argument, in iteration order
    result,             \* find_matching_name: outcome of the call
    official_students,  \* process_attendance: list of student records
    form_attendees,     \* process_attendance: insertion-ordered dict
    meet_attendance,    \* process_attendance: insertion-ordered dict
    min_required_hours, \* process_attendance: argument, in minutes
    spos,               \* per-student position inside the loop body of step 4
    form_names,         \* names stored so far by the form loop, in input order
    meet_rows,          \* rows stored so far by the Meet loop, in input order
    output_rows         \* rows written to asistencia_final_*.csv

vars == <<pc, name, once, twice, target_name, name_list, result,
          official_students, form_attendees, meet_attendance,
          min_required_hours, spos, form_names, meet_rows, output_rows>>

normVars  == <<name, once, twice>>
matchVars == <<target_name, name_list, result>>
procVars  == <<official_students, form_attendees, meet_attendance,
               min_required_hours, spos, form_names, meet_rows, output_rows>>

(***************************************************************************)
(* Bounds of the model.                                                    *)
(***************************************************************************)
MaxLen    == 3   \* longest argument of normalize_name in SpecNorm
MaxCands  == 3   \* most candidates in name_list in SpecMatch
MaxRoster == 2   \* most students in the official list
MaxRows   == 2   \* most rows stored from the form file and from the Meet file

NoStr == <<"-">>    \* placeholder of a variable that holds no string yet

\* The sequences over A of length at most n
RECURSIVE SeqsUpTo(_, _)
SeqsUpTo(A, n) ==
    IF n = 0 THEN {<<>>}
    ELSE LET shorter == SeqsUpTo(A, n - 1)
         IN  shorter \cup {Append(s, c) : s \in shorter, c \in A}

(***************************************************************************)
(* String primitives of Python used by the program.                        *)
(***************************************************************************)
Whitespace == {" ", "\t"}

LowerCase == <<"a","b","c","d","e","f","g","h","i","j","k","l","m",
               "n","o","p","q","r","s","t","u","v","w","x","y","z">>
UpperCase == <<"A","B","C","D","E","F","G","H","I","J","K","L","M",
               "N","O","P","Q","R","S","T","U","V","W","X","Y","Z">>

UpperOf == [c \in {LowerCase[i] : i \in 1..Len(LowerCase)} |->
               UpperCase[CHOOSE i \in 1..Len(LowerCase) : LowerCase[i] = c]]

UpperChar(c) == IF c \in DOMAIN UpperOf THEN UpperOf[c] ELSE c

\* str.upper()
Upper(s) == [i \in 1..Len(s) |-> UpperChar(s[i])]

RECURSIVE LStrip(_)
LStrip(s) ==
    IF s = <<>> THEN s
    ELSE IF Head(s) \in Whitespace THEN LStrip(Tail(s)) ELSE s

RECURSIVE RStrip(_)
RStrip(s) ==
    IF s = <<>> THEN s
    ELSE IF s[Len(s)] \in Whitespace THEN RStrip(SubSeq(s, 1, Len(s) - 1)) ELSE s

\* str.strip()
Strip(s) == RStrip(LStrip(s))

\* re.sub(r'\s+', ' ', s): every maximal run of whitespace becomes one space
RECURSIVE CollapseSpaces(_)
CollapseSpaces(s) ==
    IF s = <<>> THEN s
    ELSE IF Head(s) \in Whitespace
         THEN <<" ">> \o CollapseSpaces(LStrip(s))
         ELSE <<Head(s)>> \o CollapseSpaces(Tail(s))

Punctuation == {".", ",", ";", ":", "'", "\""}

IsKept(c) == c \notin Punctuation

\* re.sub(r'[.,;:\'"]', '', s): the characters are removed, nothing replaces them
StripPunctuation(s) == SelectSeq(s, IsKept)

\* The same without the conversion to upper case
normalize_name_keep_case(nm) ==
    IF nm = <<>> THEN <<>>
    ELSE StripPunctuation(CollapseSpaces(Strip(nm)))

normalize_name(nm) ==
    IF nm = <<>> THEN <<>>
    ELSE StripPunctuation(CollapseSpaces(Upper(Strip(nm))))

(***************************************************************************)
(* find_matching_name.                                                     *)
(***************************************************************************)
\* Length of the longest prefix of s without whitespace
RECURSIVE WordLen(_)
WordLen(s) ==
    IF s = <<>> \/ Head(s) \in Whitespace THEN 0 ELSE 1 + WordLen(Tail(s))

\* str.split() without arguments: the words between runs of whitespace
RECURSIVE Split(_)
Split(s) ==
    LET t == LStrip(s)
        n == WordLen(t)
    IN  IF t = <<>> THEN <<>>
        ELSE <<SubSeq(t, 1, n)>> \o Split(SubSeq(t, n + 1, Len(t)))

Range(q) == {q[i] : i \in 1..Len(q)}

\* set(s.split())
WordSet(s) == Range(Split(s))

Max(a, b) == IF a >= b THEN a ELSE b

\* len(common_words) and the denominator of the score of candidate c
Common(t, c) == Cardinality(WordSet(t) \cap WordSet(c))
Denom(t, c)  == Max(Cardinality(WordSet(t)), Cardinality(WordSet(c)))

\* Outcomes of a call: a returned name, the returned None, or a raised exception
Match(nm) == [kind |-> "match", name |-> nm]
None      == [kind |-> "none",  name |-> NoStr]
Raise(e)  == [kind |-> "raise", name |-> <<e>>]

\* Threshold taken as inclusive
AcceptsInclusive(common, den, best_num, best_den) ==
    /\ common * best_den > best_num * den
    /\ 2 * common >= den

\* Ties taken by the later candidate
AcceptsLastSeen(common, den, best_num, best_den) ==
    /\ common * best_den >= best_num * den
    /\ 2 * common > den

\* score > best_score and score > 0.5, for score = common / den and
\* best_score = best_num / best_den, compared as exact fractions
Accepts(common, den, best_num, best_den) ==
    /\ common * best_den > best_num * den
    /\ 2 * common > den

\* The for loop of find_matching_name from candidate i on
RECURSIVE MatchLoop(_, _, _, _, _, _)
MatchLoop(target, names, i, best_match, best_num, best_den) ==
    IF i > Len(names) THEN best_match
    ELSE LET common == Common(target, names[i])
             den    == Denom(target, names[i])
         IN  IF den = 0 THEN Raise("ZeroDivisionError")
             ELSE IF Accepts(common, den, best_num, best_den)
                  THEN MatchLoop(target, names, i + 1, Match(names[i]), common, den)
                  ELSE MatchLoop(target, names, i + 1, best_match, best_num, best_den)

\* The exact-match test skipped
ExactMatchNever(target, names) == FALSE

\* target_name in name_list
ExactMatch(target, names) == target \in Range(names)

find_matching_name(target, names) ==
    IF target = <<>> THEN None
    ELSE IF ExactMatch(target, names) THEN Match(target)
    ELSE MatchLoop(target, names, 1, None, 0, 1)

\* if form_match: / if meet_match:
Truthy(r) == r.kind = "match" /\ r.name # <<>>

(***************************************************************************)
(* SpecMatch: one call of find_matching_name on outputs of normalize_name. *)
(***************************************************************************)
RawMatchNames ==
    { <<>>,
      <<".">>,
      <<".", " ", ".">>,
      <<".", " ", ".", " ", ".">>,
      <<"a", " ", "b">>,
      <<"B", "\t", " ", "a">>,
      <<"a", " ", ".", " ", "b">>,
      <<"a", " ", "b", " ", "c">>,
      <<"b">>,
      <<"c", " ", "b">>,
      <<"c">> }

MatchNames == {normalize_name(r) : r \in RawMatchNames}

\* Sequences without repetition over S of length at most n (the keys of a dict)
RECURSIVE DistinctSeqs(_, _)
DistinctSeqs(S, n) ==
    IF n = 0 THEN {<<>>}
    ELSE LET shorter == DistinctSeqs(S, n - 1)
         IN  shorter \cup
             UNION {{Append(q, x) : x \in S \ Range(q)} : q \in shorter}

InitMatch ==
    /\ pc = "match_call"
    /\ target_name \in MatchNames
    /\ name_list \in DistinctSeqs(MatchNames, MaxCands)
    /\ result = [kind |-> "pending", name |-> NoStr]
    /\ name = NoStr /\ once = NoStr /\ twice = NoStr
    /\ official_students = <<>> /\ form_attendees = <<>> /\ meet_attendance = <<>>
    /\ min_required_hours = 0 /\ spos = <<>> /\ form_names = <<>>
    /\ meet_rows = <<>> /\ output_rows = <<>>

CallFindMatchingName ==
    /\ pc = "match_call"
    /\ result' = find_matching_name(target_name, name_list)
    /\ pc' = "match_returned"
    /\ UNCHANGED <<target_name, name_list, normVars, procVars>>

NextMatch == CallFindMatchingName

SpecMatch == InitMatch /\ [][NextMatch]_vars

Returned == pc = "match_returned"

\* score of candidate c above 0.5 / at most 0.5 (a score exists when Denom > 0)
ScoreAboveHalf(t, c) == Denom(t, c) > 0 /\ 2 * Common(t, c) > Denom(t, c)
ScoreAtMostHalf(t, c) == Denom(t, c) > 0 /\ 2 * Common(t, c) <= Denom(t, c)

\* score of c1 below / equal to the score of c2
ScoreLess(t, c1, c2) == Common(t, c1) * Denom(t, c2) < Common(t, c2) * Denom(t, c1)
ScoreEqual(t, c1, c2) == Common(t, c1) * Denom(t, c2) = Common(t, c2) * Denom(t, c1)

\* C3 (as claimed): for every target and candidates that are outputs of
\* normalize_name, the call returns a candidate or None and never raises.
C3_Total ==
    Returned =>
        \/ result = None
        \/ result.kind = "match" /\ result.name \in Range(name_list)

\* C4: a non-empty target that is a member of the candidates is returned itself,
\* whatever the other candidates and their order.
C4_ExactMatchShortCircuit ==
    (Returned /\ target_name # <<>> /\ target_name \in Range(name_list))
        => result = Match(target_name)

\* C4 witness: the target is returned although an earlier, different candidate
\* has score 1.
C4_Witness ==
    /\ Returned
    /\ result = Match(target_name)
    /\ \E i, j \in 1..Len(name_list) :
          /\ i < j
          /\ name_list[j] = target_name
          /\ Denom(target_name, name_list[i]) > 0
          /\ Common(target_name, name_list[i]) = Denom(target_name, name_list[i])

\* C5: when the target is not a candidate, a returned candidate has a score
\* strictly above 0.5, and if every candidate scores 0.5 or less the result is
\* None.
C5_ExclusiveThreshold ==
    (Returned /\ target_name \notin Range(name_list)) =>
        /\ result.kind = "match" =>
              /\ result.name \in Range(name_list)
              /\ ScoreAboveHalf(target_name, result.name)
        /\ (\A c \in Range(name_list) : ScoreAtMostHalf(target_name, c))
              => result = None

\* C5 witness: a candidate scores exactly 0.5 and the result is None.
C5_Witness ==
    /\ Returned
    /\ target_name \notin Range(name_list)
    /\ \E c \in Range(name_list) :
          Common(target_name, c) = 1 /\ Denom(target_name, c) = 2
    /\ \A c \in Range(name_list) : ScoreAtMostHalf(target_name, c)
    /\ result = None

\* C6: when the target is not a candidate and some candidate scores above 0.5,
\* the result is a candidate of maximum score, and every candidate before it in
\* iteration order has a strictly lower score.
C6_BestScoreFirstSeen ==
    (/\ Returned
     /\ target_name \notin Range(name_list)
     /\ \E c \in Range(name_list) : ScoreAboveHalf(target_name, c))
    => /\ result.kind = "match"
       /\ \E i \in 1..Len(name_list) :
             /\ name_list[i] = result.name
             /\ \A j \in 1..Len(name_list) :
                   ~ScoreLess(target_name, name_list[i], name_list[j])
             /\ \A j \in 1..(i - 1) :
                   ScoreLess(target_name, name_list[j], name_list[i])

\* C6 witness: a candidate above 0.5, then a better one, then one tying with the
\* better one; the middle one is returned.
C6_Witness ==
    /\ Returned
    /\ target_name \notin Range(name_list)
    /\ \E i, j, k \in 1..Len(name_list) :
          /\ i < j /\ j < k
          /\ ScoreAboveHalf(target_name, name_list[i])
          /\ ScoreLess(target_name, name_list[i], name_list[j])
          /\ ScoreEqual(target_name, name_list[j], name_list[k])
          /\ result = Match(name_list[j])

(***************************************************************************)
(* convert_duration_to_hours. The result is kept in minutes (hours * 60).  *)
(***************************************************************************)
Digits == <<"0","1","2","3","4","5","6","7","8","9">>

IsDigit(c) == \E i \in 1..Len(Digits) : Digits[i] = c
DigitVal(c) == (CHOOSE i \in 1..Len(Digits) : Digits[i] = c) - 1

RECURSIVE DecimalVal(_)
DecimalVal(s) ==
    IF s = <<>> THEN 0
    ELSE 10 * DecimalVal(SubSeq(s, 1, Len(s) - 1)) + DigitVal(s[Len(s)])

\* float(s) for the strings of the model: a run of decimal digits is its value,
\* any other string raises ValueError
ParseFloat(s) ==
    IF s # <<>> /\ \A i \in 1..Len(s) : IsDigit(s[i])
    THEN [ok |-> TRUE, val |-> DecimalVal(s)]
    ELSE [ok |-> FALSE, val |-> 0]

\* Length of the longest prefix of s without the character sep
RECURSIVE FieldLen(_, _)
FieldLen(s, sep) ==
    IF s = <<>> \/ Head(s) = sep THEN 0 ELSE 1 + FieldLen(Tail(s), sep)

\* str.split(sep): every occurrence of sep separates two parts
RECURSIVE SplitOn(_, _)
SplitOn(s, sep) ==
    LET n == FieldLen(s, sep)
    IN  IF n = Len(s) THEN <<s>>
        ELSE <<SubSeq(s, 1, n)>> \o SplitOn(SubSeq(s, n + 2, Len(s)), sep)

\* sub in s
Contains(s, sub) ==
    \E i \in 1..(Len(s) - Len(sub) + 1) : SubSeq(s, i, i + Len(sub) - 1) = sub

\* [ok, val]: ok is FALSE when float() raises ValueError
convert_duration_to_hours(duration_str) ==
    LET parts   == SplitOn(duration_str, " ")
        hasH    == Len(parts) >= 2 /\ Contains(parts[2], <<"h">>)
        hasMin  == Len(parts) >= 4 /\ Contains(parts[4], <<"m", "i", "n">>)
        hours   == IF hasH THEN ParseFloat(parts[1]) ELSE [ok |-> TRUE, val |-> 0]
        minutes == IF hasMin THEN ParseFloat(parts[3]) ELSE [ok |-> TRUE, val |-> 0]
    IN  IF hours.ok /\ minutes.ok
        THEN [ok |-> TRUE, val |-> 60 * hours.val + minutes.val]
        ELSE [ok |-> FALSE, val |-> 0]

(***************************************************************************)
(* Insertion-ordered dict: a sequence of [key, value] without repeated key *)
(***************************************************************************)
DictKeys(d) == [i \in 1..Len(d) |-> d[i].key]
DictHas(d, k) == \E i \in 1..Len(d) : d[i].key = k
DictGet(d, k) == d[CHOOSE i \in 1..Len(d) : d[i].key = k].value

\* An assignment that keeps the value already stored under the key
DictSetKeepFirst(d, k, v) ==
    IF DictHas(d, k) THEN d ELSE Append(d, [key |-> k, value |-> v])

\* d[k] = v
DictSet(d, k, v) ==
    IF DictHas(d, k)
    THEN [i \in 1..Len(d) |-> IF d[i].key = k THEN [key |-> k, value |-> v] ELSE d[i]]
    ELSE Append(d, [key |-> k, value |-> v])

(***************************************************************************)
(* process_attendance: the rows the three csv readers can deliver.         *)
(***************************************************************************)
Sp == <<" ">>
wGARCIA == <<"G","A","R","C","I","A">>
wANA    == <<"A","N","A">>
wGarcia == <<"G","a","r","c","i","a">>
wAna    == <<"A","n","a">>
wDot    == <<".">>
wEmpty  == <<>>

RosterRows ==
    { <<wGARCIA, wANA>>,
      <<wDot, wDot>>,
      <<wDot, wEmpty>>,
      <<Sp, wEmpty>>,
      <<wGARCIA>> }

FormRows ==
    { <<wEmpty, wEmpty, wAna \o Sp \o wGarcia>>,
      <<wEmpty, wEmpty, Sp \o wANA \o Sp \o Sp \o wGARCIA>>,
      <<wEmpty, wEmpty, wDot>>,
      <<wEmpty, wEmpty, Sp>>,
      <<wEmpty, wEmpty>> }

d4h30 == <<"4"," ","h"," ","3","0"," ","m","i","n">>
d3h50 == <<"3"," ","h"," ","5","0"," ","m","i","n">>
d1h   == <<"1"," ","h">>
dxh   == <<"x"," ","h">>

MeetRows ==
    { <<wGarcia, wAna, wEmpty, d4h30>>,
      <<wGarcia, wAna, wEmpty, d3h50>>,
      <<wAna, wGarcia \o Sp \o wAna, wEmpty, d1h>>,
      <<<<"M","o","n","i","t","o","r">>, <<"1">>, wEmpty, d4h30>>,
      <<wEmpty, Sp, wEmpty, d4h30>>,
      <<wGarcia, wAna, wEmpty, dxh>>,
      <<wGarcia, wAna>> }

\* --horas: the default 4.0 and 0.0, in minutes
MinHoursChoices == {0, 240}

(***************************************************************************)
(* Step 1: the official list.                                              *)
(***************************************************************************)
\* len(row) >= 2 and (apellidos or nombres)
RosterRowAccepted(row) ==
    /\ Len(row) >= 2
    /\ Strip(row[1]) # <<>> \/ Strip(row[2]) # <<>>

NewStudent(row) ==
    LET apellidos == Strip(row[1])
        nombres   == Strip(row[2])
    IN  [apellidos          |-> apellidos,
         nombres            |-> nombres,
         nombre_completo    |-> apellidos \o Sp \o nombres,
         nombre_normalizado |-> normalize_name(apellidos \o Sp \o nombres),
         asistencia         |-> "F",
         en_formulario      |-> FALSE,
         horas_meet         |-> 0]

\* official_students after the loop body of step 1 on one row
RosterAfterRow(students, row) ==
    IF RosterRowAccepted(row) THEN Append(students, NewStudent(row)) ELSE students

(***************************************************************************)
(* Step 2: the form file.                                                  *)
(***************************************************************************)
name_col_index == 2

\* len(row) > name_col_index and the stripped cell is not empty
FormRowAccepted(row) ==
    /\ Len(row) > name_col_index
    /\ Strip(row[name_col_index + 1]) # <<>>

FormStudentName(row) == Strip(row[name_col_index + 1])

\* form_attendees after the loop body of step 2 on one row
FormAfterRow(d, row) ==
    IF FormRowAccepted(row)
    THEN DictSet(d, normalize_name(FormStudentName(row)), FormStudentName(row))
    ELSE d

(***************************************************************************)
(* Step 3: the Meet file.                                                  *)
(***************************************************************************)
name_cols == <<0, 1>>
duration_col == 3

Monitor    == <<"M","O","N","I","T","O","R">>
Supervisor == <<"S","U","P","E","R","V","I","S","O","R">>

StartsWith(s, prefix) ==
    Len(s) >= Len(prefix) /\ SubSeq(s, 1, Len(prefix)) = prefix

\* " ".join(parts)
RECURSIVE Join(_)
Join(parts) ==
    IF parts = <<>> THEN <<>>
    ELSE IF Len(parts) = 1 THEN parts[1]
    ELSE parts[1] \o Sp \o Join(Tail(parts))

NotEmpty(s) == s # <<>>

\* The name built from the name columns: stripped cells, the empty ones dropped
MeetName(row) ==
    Join(SelectSeq([i \in 1..Len(name_cols) |-> Strip(row[name_cols[i] + 1])], NotEmpty))

\* The row is not skipped by either continue
MeetRowAccepted(row) ==
    /\ Len(row) > Max(Max(name_cols[1], name_cols[2]), duration_col)
    /\ MeetName(row) # <<>>
    /\ ~StartsWith(Upper(MeetName(row)), Monitor)
    /\ ~StartsWith(Upper(MeetName(row)), Supervisor)

MeetHours(row) == convert_duration_to_hours(row[duration_col + 1])

\* meet_attendance after the loop body of step 3 on one row whose duration parses
MeetAfterRow(d, row) ==
    IF MeetRowAccepted(row)
    THEN DictSet(d, normalize_name(MeetName(row)), MeetHours(row).val)
    ELSE d

(***************************************************************************)
(* Step 4: the loop body for one student, in its three parts.              *)
(***************************************************************************)
\* The lookup hands the keys to find_matching_name, which only reads them
IndexAfterLookupConsumed(index, r) ==
    IF r.kind = "match"
    THEN SelectSeq(index, LAMBDA e : e.key # r.name)
    ELSE index

IndexAfterLookup(index, r) == index

\* if form_match: student['en_formulario'] = True
AfterFormLookup(student, r) ==
    IF Truthy(r) THEN [student EXCEPT !.en_formulario = TRUE] ELSE student

\* if meet_match: student['horas_meet'] = meet_attendance[meet_match]
AfterMeetLookup(student, r, meet) ==
    IF Truthy(r) THEN [student EXCEPT !.horas_meet = DictGet(meet, r.name)] ELSE student

\* Either signal taken as enough
IsPresentEither(student, min_hours) ==
    student.en_formulario \/ student.horas_meet >= min_hours

\* student['en_formulario'] and student['horas_meet'] >= min_required_hours
IsPresent(student, min_hours) ==
    student.en_formulario /\ student.horas_meet >= min_hours

AfterDecision(student, min_hours) ==
    IF IsPresent(student, min_hours) THEN [student EXCEPT !.asistencia = "A"] ELSE student

(***************************************************************************)
(* Spec: process_attendance from its first statement to its last.          *)
(***************************************************************************)
Init ==
    /\ pc = "load_roster"
    /\ official_students = <<>>
    /\ form_attendees = <<>>
    /\ meet_attendance = <<>>
    /\ min_required_hours \in MinHoursChoices
    /\ spos = <<>>
    /\ form_names = <<>>
    /\ meet_rows = <<>>
    /\ output_rows = <<>>
    /\ name = NoStr /\ once = NoStr /\ twice = NoStr
    /\ target_name = NoStr /\ name_list = <<>>
    /\ result = [kind |-> "pending", name |-> NoStr]

\* open() fails or the file has no header line: the except clause returns
RosterFileError ==
    /\ pc = "load_roster"
    /\ official_students = <<>>
    /\ pc' = "aborted"
    /\ UNCHANGED <<normVars, matchVars, procVars>>

LoadRosterRow ==
    /\ pc = "load_roster"
    /\ Len(official_students) < MaxRoster
    /\ \E row \in RosterRows :
          /\ official_students' = RosterAfterRow(official_students, row)
          /\ spos' = [k \in 1..Len(official_students') |-> "form"]
    /\ UNCHANGED <<pc, normVars, matchVars, form_attendees, meet_attendance,
                   min_required_hours, form_names, meet_rows, output_rows>>

EndRoster ==
    /\ pc = "load_roster"
    /\ pc' = "load_form"
    /\ UNCHANGED <<normVars, matchVars, procVars>>

FormFileError ==
    /\ pc = "load_form"
    /\ form_attendees = <<>>
    /\ pc' = "aborted"
    /\ UNCHANGED <<normVars, matchVars, procVars>>

LoadFormRow ==
    /\ pc = "load_form"
    /\ Len(form_names) < MaxRows
    /\ \E row \in FormRows :
          /\ form_attendees' = FormAfterRow(form_attendees, row)
          /\ form_names' = IF FormRowAccepted(row)
                           THEN Append(form_names, FormStudentName(row))
                           ELSE form_names
    /\ UNCHANGED <<pc, normVars, matchVars, official_students, meet_attendance,
                   min_required_hours, spos, meet_rows, output_rows>>

EndForm ==
    /\ pc = "load_form"
    /\ pc' = "load_meet"
    /\ UNCHANGED <<normVars, matchVars, procVars>>

LoadMeetRow ==
    /\ pc = "load_meet"
    /\ Len(meet_rows) < MaxRows
    /\ \E row \in MeetRows :
          IF ~MeetRowAccepted(row)
          THEN UNCHANGED <<pc, meet_attendance, meet_rows>>
          ELSE IF ~MeetHours(row).ok
          THEN \* ValueError from float(): the except clause returns
               /\ pc' = "aborted"
               /\ UNCHANGED <<meet_attendance, meet_rows>>
          ELSE /\ meet_attendance' = MeetAfterRow(meet_attendance, row)
               /\ meet_rows' = Append(meet_rows, row)
               /\ pc' = pc
    /\ UNCHANGED <<normVars, matchVars, official_students, form_attendees,
                   min_required_hours, spos, form_names, output_rows>>

EndMeet ==
    /\ pc = "load_meet"
    /\ pc' = "reconcile"
    /\ UNCHANGED <<normVars, matchVars, procVars>>

\* find_matching_name(normalized_name, form_attendees.keys()) and the if after it
FormLookup(k) ==
    /\ pc = "reconcile"
    /\ spos[k] = "form"
    /\ LET r == find_matching_name(official_students[k].nombre_normalizado,
                                   DictKeys(form_attendees))
       IN  IF r.kind = "raise"
           THEN /\ pc' = "crashed"
                /\ UNCHANGED <<official_students, spos, form_attendees>>
           ELSE /\ official_students' =
                      [official_students EXCEPT ![k] = AfterFormLookup(@, r)]
                /\ form_attendees' = IndexAfterLookup(form_attendees, r)
                /\ spos' = [spos EXCEPT ![k] = "meet"]
                /\ pc' = pc
    /\ UNCHANGED <<normVars, matchVars, meet_attendance, min_required_hours,
                   form_names, meet_rows, output_rows>>

\* find_matching_name(normalized_name, meet_attendance.keys()) and the if after it
MeetLookup(k) ==
    /\ pc = "reconcile"
    /\ spos[k] = "meet"
    /\ LET r == find_matching_name(official_students[k].nombre_normalizado,
                                   DictKeys(meet_attendance))
       IN  IF r.kind = "raise"
           THEN /\ pc' = "crashed"
                /\ UNCHANGED <<official_students, spos, meet_attendance>>
           ELSE /\ official_students' =
                      [official_students EXCEPT ![k] = AfterMeetLookup(@, r, meet_attendance)]
                /\ meet_attendance' = IndexAfterLookup(meet_attendance, r)
                /\ spos' = [spos EXCEPT ![k] = "decide"]
                /\ pc' = pc
    /\ UNCHANGED <<normVars, matchVars, form_attendees, min_required_hours,
                   form_names, meet_rows, output_rows>>

\* The final if of the loop body
Decide(k) ==
    /\ pc = "reconcile"
    /\ spos[k] = "decide"
    /\ official_students' =
           [official_students EXCEPT ![k] = AfterDecision(@, min_required_hours)]
    /\ spos' = [spos EXCEPT ![k] = "done"]
    /\ UNCHANGED <<pc, normVars, matchVars, form_attendees, meet_attendance,
                   min_required_hours, form_names, meet_rows, output_rows>>

\* for student in official_students: student k is reached after students 1..k-1
InOrder(k) == \A j \in 1..(k - 1) : spos[j] = "done"

StudentStep ==
    \E k \in 1..Len(official_students) :
        InOrder(k) /\ (FormLookup(k) \/ MeetLookup(k) \/ Decide(k))

EndLoop ==
    /\ pc = "reconcile"
    /\ \A k \in 1..Len(official_students) : spos[k] = "done"
    /\ pc' = "write"
    /\ UNCHANGED <<normVars, matchVars, procVars>>

\* Step 5: one row per student in asistencia_final_<timestamp>.csv. Step 6 writes
\* the detailed report from the same list and only prints its own I/O error.
WriteOutput ==
    /\ pc = "write"
    /\ output_rows' = [i \in 1..Len(official_students) |->
                          <<official_students[i].apellidos,
                            official_students[i].nombres,
                            official_students[i].asistencia>>]
    /\ pc' = "summary"
    /\ UNCHANGED <<normVars, matchVars, official_students, form_attendees,
                   meet_attendance, min_required_hours, spos, form_names, meet_rows>>

\* The output file cannot be written: the except clause returns
WriteError ==
    /\ pc = "write"
    /\ pc' = "aborted"
    /\ UNCHANGED <<normVars, matchVars, procVars>>

\* Step 7: present_students / total_students raises ZeroDivisionError when the
\* list is empty
Summary ==
    /\ pc = "summary"
    /\ pc' = IF Len(official_students) = 0 THEN "crashed" ELSE "done"
    /\ UNCHANGED <<normVars, matchVars, procVars>>

Next ==
    \/ RosterFileError \/ LoadRosterRow \/ EndRoster
    \/ FormFileError \/ LoadFormRow \/ EndForm
    \/ LoadMeetRow \/ EndMeet
    \/ StudentStep \/ EndLoop
    \/ WriteOutput \/ WriteError \/ Summary

Spec == Init /\ [][Next]_vars

PassCompleted == pc \in {"write", "summary", "done"}

\* C1: after the reconciliation pass every student is PRESENT ('A') exactly when
\* registered in the form with Meet hours of at least the minimum, else ABSENT.
C1_DecisionRule ==
    PassCompleted =>
        \A k \in 1..Len(official_students) :
            LET s == official_students[k]
            IN  /\ s.asistencia \in {"A", "F"}
                /\ s.asistencia = "A" <=>
                       (s.en_formulario /\ s.horas_meet >= min_required_hours)

\* C1 witness: after the pass with a minimum of 4.0 hours one student is
\* PRESENT, registered and with enough hours, and another is ABSENT.
C1_Witness ==
    /\ PassCompleted
    /\ min_required_hours = 240
    /\ \E k \in 1..Len(official_students) :
          /\ official_students[k].asistencia = "A"
          /\ official_students[k].en_formulario
          /\ official_students[k].horas_meet >= 240
    /\ \E k \in 1..Len(official_students) : official_students[k].asistencia = "F"

KeysDistinct(d) == \A i, j \in 1..Len(d) : d[i].key = d[j].key => i = j

MeetKey(row) == normalize_name(MeetName(row))

\* C7: after any sequence of rows has been stored, each index holds one entry
\* per distinct normalized name of those rows, and its value is that of the
\* last such row in input order.
C7_LastWriteWins ==
    /\ pc = "load_meet" =>
          /\ KeysDistinct(meet_attendance)
          /\ Range(DictKeys(meet_attendance)) =
                 {MeetKey(meet_rows[i]) : i \in 1..Len(meet_rows)}
          /\ \A i \in 1..Len(meet_rows) :
                (\A j \in (i + 1)..Len(meet_rows) :
                     MeetKey(meet_rows[j]) # MeetKey(meet_rows[i]))
                    => DictGet(meet_attendance, MeetKey(meet_rows[i]))
                           = MeetHours(meet_rows[i]).val
    /\ pc = "load_form" =>
          /\ KeysDistinct(form_attendees)
          /\ Range(DictKeys(form_attendees)) =
                 {normalize_name(form_names[i]) : i \in 1..Len(form_names)}
          /\ \A i \in 1..Len(form_names) :
                (\A j \in (i + 1)..Len(form_names) :
                     normalize_name(form_names[j]) # normalize_name(form_names[i]))
                    => DictGet(form_attendees, normalize_name(form_names[i]))
                           = form_names[i]

\* C7 witness: two Meet rows with one key and different durations, and two form
\* names with one key and different spellings, have been stored.
C7_Witness ==
    /\ pc = "load_meet"
    /\ Len(meet_attendance) = 1
    /\ \E i, j \in 1..Len(meet_rows) :
          /\ i < j /\ j = Len(meet_rows)
          /\ MeetKey(meet_rows[i]) = MeetKey(meet_rows[j])
          /\ MeetHours(meet_rows[i]).val # MeetHours(meet_rows[j]).val
          /\ meet_attendance[1].value = MeetHours(meet_rows[j]).val
    /\ Len(form_attendees) = 1
    /\ \E i, j \in 1..Len(form_names) :
          /\ i < j /\ j = Len(form_names)
          /\ form_names[i] # form_names[j]
          /\ form_attendees[1].value = form_names[j]

SameWords(a, b) == WordSet(a) = WordSet(b)

\* C8 (as claimed): a student whose normalized name has the words of a form name
\* and of a Meet name ends registered, with the hours of that Meet entry, and
\* PRESENT exactly when those hours reach the minimum.
C8_AsClaimed ==
    pc = "done" =>
        \A k \in 1..Len(official_students) :
        \A f \in 1..Len(form_attendees) :
        \A e \in 1..Len(meet_attendance) :
            LET s == official_students[k]
            IN  (/\ SameWords(s.nombre_normalizado, form_attendees[f].key)
                 /\ SameWords(s.nombre_normalizado, meet_attendance[e].key))
                => /\ s.en_formulario
                   /\ s.horas_meet = meet_attendance[e].value
                   /\ s.asistencia = "A" <=> meet_attendance[e].value >= min_required_hours

\* The Meet entry selected for a name: the one stored under the name itself if
\* there is one, else the first in insertion order with the same words
SelectedHours(nn) ==
    IF DictHas(meet_attendance, nn) THEN DictGet(meet_attendance, nn)
    ELSE meet_attendance[CHOOSE e \in 1..Len(meet_attendance) :
             /\ SameWords(nn, meet_attendance[e].key)
             /\ \A e2 \in 1..(e - 1) : ~SameWords(nn, meet_attendance[e2].key)].value

\* The end-to-end scenario: one student, one form answer, one Meet row, 4.0 hours
Scenario(duration) ==
    /\ pc = "done"
    /\ Len(official_students) = 1
    /\ official_students[1].apellidos = wGARCIA
    /\ official_students[1].nombres = wANA
    /\ form_names = <<wAna \o Sp \o wGarcia>>
    /\ meet_rows = << <<wGarcia, wAna, wEmpty, duration>> >>
    /\ min_required_hours = 240

\* C8 (amended): a student whose normalized name has at least one word, and the
\* words of a form name and of a Meet name, ends registered, with the hours of
\* the selected Meet entry, and PRESENT exactly when those hours reach the
\* minimum; in the scenario, 4 h 30 min gives 4.5 hours and PRESENT, 3 h 50 min
\* gives 230 minutes and ABSENT.
C8_WordOrderAndCase ==
    /\ pc = "done" =>
          \A k \in 1..Len(official_students) :
              LET s  == official_students[k]
                  nn == s.nombre_normalizado
              IN  (/\ WordSet(nn) # {}
                   /\ \E f \in 1..Len(form_attendees) : SameWords(nn, form_attendees[f].key)
                   /\ \E e \in 1..Len(meet_attendance) : SameWords(nn, meet_attendance[e].key))
                  => /\ s.en_formulario
                     /\ s.horas_meet = SelectedHours(nn)
                     /\ s.asistencia = "A" <=> SelectedHours(nn) >= min_required_hours
    /\ Scenario(d4h30) =>
          /\ official_students[1].en_formulario
          /\ official_students[1].horas_meet = 270
          /\ official_students[1].asistencia = "A"
    /\ Scenario(d3h50) =>
          /\ official_students[1].en_formulario
          /\ official_students[1].horas_meet = 230
          /\ official_students[1].asistencia = "F"

\* C8 witness: the scenario with 4 h 30 min has run to the end of the pass.
C8_Witness ==
    /\ Scenario(d4h30)
    /\ official_students[1].nombre_normalizado # form_attendees[1].key
    /\ official_students[1].asistencia = "A"

\* C9 (as claimed): with an empty roster the program raises no error.
C9_EmptyRosterNoError ==
    official_students = <<>> => pc # "crashed"

(***************************************************************************)
(* SpecAny: the loop of step 4 with the students taken in any order and    *)
(* their loop bodies interleaved. It starts where steps 1 to 3 can leave   *)
(* the program; the history variables form_names and meet_rows are not     *)
(* kept.                                                                   *)
(***************************************************************************)
RECURSIVE LoadRoster(_)
LoadRoster(rows) ==
    IF rows = <<>> THEN <<>>
    ELSE RosterAfterRow(LoadRoster(SubSeq(rows, 1, Len(rows) - 1)), rows[Len(rows)])

RECURSIVE LoadForm(_)
LoadForm(rows) ==
    IF rows = <<>> THEN <<>>
    ELSE FormAfterRow(LoadForm(SubSeq(rows, 1, Len(rows) - 1)), rows[Len(rows)])

RECURSIVE LoadMeet(_)
LoadMeet(rows) ==
    IF rows = <<>> THEN <<>>
    ELSE MeetAfterRow(LoadMeet(SubSeq(rows, 1, Len(rows) - 1)), rows[Len(rows)])

\* The Meet rows that do not end the program with a ValueError
MeetRowsRead == {row \in MeetRows : ~MeetRowAccepted(row) \/ MeetHours(row).ok}

Rosters     == {LoadRoster(q) : q \in SeqsUpTo(RosterRows, MaxRoster)}
FormIndexes == {LoadForm(q) : q \in SeqsUpTo(FormRows, MaxRows)}
MeetIndexes == {LoadMeet(q) : q \in SeqsUpTo(MeetRowsRead, MaxRows)}

InitAny ==
    /\ pc = "reconcile"
    /\ official_students \in Rosters
    /\ form_attendees \in FormIndexes
    /\ meet_attendance \in MeetIndexes
    /\ min_required_hours \in MinHoursChoices
    /\ spos = [k \in 1..Len(official_students) |-> "form"]
    /\ form_names = <<>>
    /\ meet_rows = <<>>
    /\ output_rows = <<>>
    /\ name = NoStr /\ once = NoStr /\ twice = NoStr
    /\ target_name = NoStr /\ name_list = <<>>
    /\ result = [kind |-> "pending", name |-> NoStr]

AnyStudentStep ==
    \E k \in 1..Len(official_students) : FormLookup(k) \/ MeetLookup(k) \/ Decide(k)

NextAny == AnyStudentStep \/ EndLoop

SpecAny == InitAny /\ [][NextAny]_vars

\* Every state in which Spec enters the loop of step 4 is an initial state of SpecAny
PassStartsInInitAny ==
    (pc = "reconcile" /\ \A k \in 1..Len(spos) : spos[k] = "form") =>
        /\ official_students \in Rosters
        /\ form_attendees \in FormIndexes
        /\ meet_attendance \in MeetIndexes

\* The student as step 1 creates it
Defaults(s) == [s EXCEPT !.asistencia = "F", !.en_formulario = FALSE, !.horas_meet = 0]

\* The for loop of step 4 run in list order from student k on; a raised
\* exception leaves the list as it is at that point
RECURSIVE SequentialFrom(_, _)
SequentialFrom(students, k) ==
    IF k > Len(students) THEN students
    ELSE LET fr == find_matching_name(students[k].nombre_normalizado,
                                      DictKeys(form_attendees))
             mr == find_matching_name(students[k].nombre_normalizado,
                                      DictKeys(meet_attendance))
             s1 == AfterFormLookup(students[k], fr)
             s2 == AfterMeetLookup(s1, mr, meet_attendance)
             s3 == AfterDecision(s2, min_required_hours)
         IN  IF fr.kind = "raise" THEN students
             ELSE IF mr.kind = "raise" THEN [students EXCEPT ![k] = s1]
             ELSE SequentialFrom([students EXCEPT ![k] = s3], k + 1)

SequentialPass ==
    SequentialFrom([k \in 1..Len(official_students) |-> Defaults(official_students[k])], 1)

\* The loop run in list order raises at some student
SequentialRaises ==
    \E k \in 1..Len(official_students) :
        \/ find_matching_name(official_students[k].nombre_normalizado,
                              DictKeys(form_attendees)).kind = "raise"
        \/ find_matching_name(official_students[k].nombre_normalizado,
                              DictKeys(meet_attendance)).kind = "raise"

\* A step of the loop leaves both indexes, the roster size and every normalized
\* name unchanged and writes to at most one student
StepFrame ==
    pc = "reconcile" =>
        /\ form_attendees' = form_attendees
        /\ meet_attendance' = meet_attendance
        /\ min_required_hours' = min_required_hours
        /\ Len(official_students') = Len(official_students)
        /\ \A k \in 1..Len(official_students) :
              official_students'[k].nombre_normalizado
                  = official_students[k].nombre_normalizado
        /\ \E k \in 0..Len(official_students) :
              \A j \in 1..Len(official_students) :
                  j # k => official_students'[j] = official_students[j]

\* C10: whatever the order and interleaving of the students' loop bodies, when
\* the loop ends every student has the registeredInForm, meetingHours and
\* attendanceFlag that processing in list order gives; the loop ends with an
\* exception only if it does so in list order too; and every step leaves the
\* indexes, the normalized names and the roster size unchanged and writes to
\* one student only.
C10_OrderIndependent ==
    /\ [](pc = "write" => (~SequentialRaises /\ official_students = SequentialPass))
    /\ [](pc = "crashed" => SequentialRaises)
    /\ [][StepFrame]_vars

\* C10 witness: the second student is finished and PRESENT while the first is
\* between its form lookup and its Meet lookup.
C10_Witness ==
    /\ pc = "reconcile"
    /\ Len(official_students) >= 2
    /\ spos[1] = "meet"
    /\ spos[2] = "done"
    /\ official_students[2].asistencia = "A"

(***************************************************************************)
(* SpecNorm: normalize_name applied to a bounded string, then to its own   *)
(* output.                                                                 *)
(***************************************************************************)
NormAlphabet == {"a", "B", " ", "\t", ".", "'"}

InitNorm ==
    /\ pc = "norm_call"
    /\ name \in SeqsUpTo(NormAlphabet, MaxLen)
    /\ once = NoStr
    /\ twice = NoStr
    /\ target_name = NoStr /\ name_list = <<>>
    /\ result = [kind |-> "pending", name |-> NoStr]
    /\ official_students = <<>> /\ form_attendees = <<>> /\ meet_attendance = <<>>
    /\ min_required_hours = 0 /\ spos = <<>> /\ form_names = <<>>
    /\ meet_rows = <<>> /\ output_rows = <<>>

NormalizeOnce ==
    /\ pc = "norm_call"
    /\ once' = normalize_name(name)
    /\ pc' = "norm_again"
    /\ UNCHANGED <<name, twice, matchVars, procVars>>

NormalizeTwice ==
    /\ pc = "norm_again"
    /\ twice' = normalize_name(once)
    /\ pc' = "norm_done"
    /\ UNCHANGED <<name, once, matchVars, procVars>>

NextNorm == NormalizeOnce \/ NormalizeTwice

SpecNorm == InitNorm /\ [][NextNorm]_vars

\* C2 (as claimed): normalize_name(normalize_name(s)) = normalize_name(s) for
\* every string s of letters, whitespace and the stripped punctuation.
C2_Idempotent == pc = "norm_done" => twice = once

====
